---- MODULE Spec2Model ----
(***************************************************************************)
(* A model of lms/djangoapps/experiments/utils.py: the stable bucketing    *)
(* hash, the program enrollment checks, the upgrade link check and the     *)
(* entitlement price lookup.                                               *)
(*                                                                         *)
(* A Python call either returns a value or raises; both are written as a   *)
(* record [exc |-> <the exception's name, "" for none>, val |-> <value>].  *)
(* Python's None is the string "None".                                     *)
(***************************************************************************)
EXTENDS Integers, Sequences, FiniteSets, TLC

None == "None"

\* None, where an object is expected.
NoObject == [is_none |-> TRUE]

Ok(v) == [exc |-> "", val |-> v]

Raise(e) == [exc |-> e, val |-> None]

(***************************************************************************)
(* Bounds of the model.                                                    *)
(***************************************************************************)
\* Characters of a hex digest (hashlib's md5 has 32; the integer parsed
\* from 32 binary digits does not fit TLC's integers).
DigestLen == 2

\* group_count ranges over -MaxGroupCount .. MaxGroupCount.
MaxGroupCount == 3

\* Course runs of a course.
MaxRuns == 2

\* Courses of a program.
MaxCourses == 2

\* Entitlements of a course.
MaxEntitlements == 2

\* Seats of a course run.
MaxSeats == 2

(***************************************************************************)
(* The state.                                                              *)
(***************************************************************************)
\* stable_bucketing_hash_group: md5 is hashlib's digest function; pc is where
\* the call of each thread stands, and args (group_name, group_count,
\* username), hasher, hash_str and result are the locals of that call.
VARIABLES md5, pc, args, hasher, hash_str, result

\* The enrollment checks: courses and user_enrollments are the arguments of a
\* call, enroll_fn the function called and enroll_ret its outcome.
VARIABLES courses, user_enrollments, enroll_fn, enroll_ret

\* check_and_get_upgrade_link_and_date: arg_user, arg_enrollment and arg_course
\* are the arguments (user, enrollment, course) of a call and upgrade_ret its
\* outcome; db is the enrollment table
\* CourseEnrollment.get_enrollment reads, link_is_valid the answer of
\* verified_upgrade_link_is_valid and upgrade_link_available whether
\* verified_upgrade_deadline_link has a link to give.
VARIABLES arg_user, arg_enrollment, arg_course, db, link_is_valid, upgrade_link_available,
          upgrade_pc, upgrade_ret

\* get_course_entitlement_price_and_sku: catalog_course is the argument
\* (course) of a call, now the time that now() gives and price_ret the outcome.
VARIABLES catalog_course, now, price_pc, price_ret

bucket_vars == <<md5, pc, args, hasher, hash_str, result>>

enroll_vars == <<courses, user_enrollments, enroll_fn, enroll_ret>>

upgrade_vars ==
    <<arg_user, arg_enrollment, arg_course, db, link_is_valid,
      upgrade_link_available, upgrade_pc, upgrade_ret>>

price_vars == <<catalog_course, now, price_pc, price_ret>>

vars == <<bucket_vars, enroll_vars, upgrade_vars, price_vars>>

(***************************************************************************)
(* Text, bytes and characters.  A text is a sequence of code points, a     *)
(* byte string a sequence of bytes, a hex digest a sequence of characters. *)
(***************************************************************************)
RECURSIVE encode_utf8(_)
encode_utf8(text) ==
    IF text = <<>> THEN <<>>
    ELSE LET cp == Head(text)
             bytes == IF cp < 128 THEN <<cp>>
                      ELSE IF cp < 2048
                           THEN <<192 + (cp \div 64), 128 + (cp % 64)>>
                           ELSE <<224 + (cp \div 4096),
                                  128 + ((cp \div 64) % 64),
                                  128 + (cp % 64)>>
         IN  bytes \o encode_utf8(Tail(text))

HexChars ==
    {"0", "1", "2", "3", "4", "5", "6", "7",
     "8", "9", "a", "b", "c", "d", "e", "f"}

\* The code point of a character of a digest.
Ord(c) ==
    CASE c = "0" -> 48 [] c = "1" -> 49 [] c = "2" -> 50 [] c = "3" -> 51
      [] c = "4" -> 52 [] c = "5" -> 53 [] c = "6" -> 54 [] c = "7" -> 55
      [] c = "8" -> 56 [] c = "9" -> 57 [] c = "a" -> 97 [] c = "b" -> 98
      [] c = "c" -> 99 [] c = "d" -> 100 [] c = "e" -> 101 [] c = "f" -> 102

\* A regular expression character class: a set of ranges <<lo, hi>>.
InClass(class, c) ==
    \E range \in class : Ord(range[1]) <= Ord(c) /\ Ord(c) <= Ord(range[2])

\* '[0-7]'
Class07 == {<<"0", "7">>}

\* '[8-9a-f]'
Class89af == {<<"8", "9">>, <<"a", "f">>}

\* re.sub(pattern, repl, string) for a pattern that is one character class.
re_sub(class, repl, string) ==
    [i \in 1..Len(string) |->
        IF InClass(class, string[i]) THEN repl ELSE string[i]]

\* The value of a character as a digit, as int() reads it.
DigitValue(c) == IF Ord(c) <= Ord("9") THEN Ord(c) - Ord("0")
                 ELSE 10 + Ord(c) - Ord("a")

\* int(string, base): ValueError on the empty string and on a digit that is
\* not one of the base.
RECURSIVE int_value(_, _, _)
int_value(string, base, acc) ==
    IF string = <<>> THEN acc
    ELSE int_value(Tail(string), base, acc * base + DigitValue(Head(string)))

int_parse(string, base) ==
    IF Len(string) = 0 \/ \E i \in 1..Len(string) : DigitValue(string[i]) >= base
    THEN Raise("ValueError")
    ELSE Ok(int_value(string, base, 0))

\* Python's a % b on integers: ZeroDivisionError for b = 0, and otherwise the
\* remainder of the floored division, which has the sign of b.
py_mod(a, b) ==
    IF b = 0 THEN Raise("ZeroDivisionError")
    ELSE IF b > 0 THEN Ok(a % b)
    ELSE Ok(-((-a) % (-b)))

(***************************************************************************)
(* stable_bucketing_hash_group.  Each thread of the process may be inside  *)
(* one call.                                                               *)
(***************************************************************************)
Threads == {"t1", "t2"}

\* The empty text and a text of one non-ASCII character.
GroupNames == {<<>>, <<233>>}

Usernames == {<<>>, <<233>>}

GroupCounts == (-MaxGroupCount)..MaxGroupCount

Arguments ==
    [group_name : GroupNames, group_count : GroupCounts, username : Usernames]

\* The byte string a call with these arguments feeds to the hasher.
Buffer(a) == encode_utf8(a.group_name) \o encode_utf8(a.username)

Buffers == {Buffer(a) : a \in Arguments}

\* hexdigest() renders the digest in lowercase hexadecimal.
Digests == [1..DigestLen -> HexChars]

\* Two digests, whose bits differ in every place.
SampleDigests ==
    {[i \in 1..DigestLen |-> "7"],
     [i \in 1..DigestLen |-> IF i = 1 THEN "8" ELSE "0"]}

\* hashlib's md5 is a fixed function of the bytes fed to the hasher: md5
\* holds the digests of the byte strings the calls hash, and any other byte
\* string has some digest too.
hexdigest(bytes) ==
    IF bytes \in DOMAIN md5 THEN md5[bytes] ELSE [i \in 1..DigestLen |-> "f"]

\* As HasherOf, with one hasher of the module that every call uses.
HasherOf_shared(t) == "t1"

\* line 340: hasher is a local of the call.
HasherOf(t) == t

\* As hash_group, reducing modulo group_count + 1.
hash_group_off_by_one(hash, group_count) ==
    LET bits == re_sub(Class89af, "1", re_sub(Class07, "0", hash))
        n    == int_parse(bits, 2)
    IN  IF n.exc # "" THEN n ELSE py_mod(n.val, group_count + 1)

\* As hash_group, with the two substitutions in the other order.
hash_group_swapped(hash, group_count) ==
    LET bits == re_sub(Class07, "0", re_sub(Class89af, "1", hash))
        n    == int_parse(bits, 2)
    IN  IF n.exc # "" THEN n ELSE py_mod(n.val, group_count)

\* line 345, given hash_str.
hash_group(hash, group_count) ==
    LET bits == re_sub(Class89af, "1", re_sub(Class07, "0", hash))
        n    == int_parse(bits, 2)
    IN  IF n.exc # "" THEN n ELSE py_mod(n.val, group_count)

\* A caller enters stable_bucketing_hash_group(group_name, group_count, username).
Call(t) ==
    /\ pc[t] \in {"idle", "done"}
    /\ \E a \in Arguments : args' = [args EXCEPT ![t] = a]
    /\ pc' = [pc EXCEPT ![t] = "called"]
    /\ hash_str' = [hash_str EXCEPT ![t] = None]
    /\ result' = [result EXCEPT ![t] = None]
    /\ UNCHANGED <<md5, hasher>>
    /\ UNCHANGED <<enroll_vars, upgrade_vars, price_vars>>

\* hasher = hashlib.md5()
NewHasher(t) ==
    /\ pc[t] = "called"
    /\ hasher' = [hasher EXCEPT ![HasherOf(t)] = <<>>]
    /\ pc' = [pc EXCEPT ![t] = "hasher"]
    /\ UNCHANGED <<md5, args, hash_str, result>>
    /\ UNCHANGED <<enroll_vars, upgrade_vars, price_vars>>

\* hasher.update(group_name.encode('utf-8'))
UpdateGroupName(t) ==
    /\ pc[t] = "hasher"
    /\ hasher' = [hasher EXCEPT ![HasherOf(t)] = @ \o encode_utf8(args[t].group_name)]
    /\ pc' = [pc EXCEPT ![t] = "group_name"]
    /\ UNCHANGED <<md5, args, hash_str, result>>
    /\ UNCHANGED <<enroll_vars, upgrade_vars, price_vars>>

\* hasher.update(username.encode('utf-8'))
UpdateUsername(t) ==
    /\ pc[t] = "group_name"
    /\ hasher' = [hasher EXCEPT ![HasherOf(t)] = @ \o encode_utf8(args[t].username)]
    /\ pc' = [pc EXCEPT ![t] = "username"]
    /\ UNCHANGED <<md5, args, hash_str, result>>
    /\ UNCHANGED <<enroll_vars, upgrade_vars, price_vars>>

\* hash_str = hasher.hexdigest(); return int(re.sub(...), 2) % group_count
Return(t) ==
    /\ pc[t] = "username"
    /\ LET h == hexdigest(hasher[HasherOf(t)])
       IN  /\ hash_str' = [hash_str EXCEPT ![t] = h]
           /\ result' = [result EXCEPT ![t] = hash_group(h, args[t].group_count)]
    /\ pc' = [pc EXCEPT ![t] = "done"]
    /\ UNCHANGED <<md5, args, hasher>>
    /\ UNCHANGED <<enroll_vars, upgrade_vars, price_vars>>

(***************************************************************************)
(* The program enrollment checks: is_enrolled_in_course_run,               *)
(* is_enrolled_in_course, is_enrolled_in_all_courses and                   *)
(* get_unenrolled_courses.                                                 *)
(***************************************************************************)
\* The strings a course run may have as its key: that of a course key and
\* one that is no course key.
RunKeys == {"course-v1:edX+A+2019", "not a course key"}

\* CourseKey.from_string(serialized): the key the string names, or
\* InvalidKeyError (as for None).
from_string(serialized) ==
    CASE serialized = "course-v1:edX+A+2019" -> Ok("CourseLocator(edX, A, 2019)")
      [] serialized = "course-v1:edX+B+2019" -> Ok("CourseLocator(edX, B, 2019)")
      [] OTHER -> Raise("InvalidKeyError")

\* The course ids the enrollments of the user may have.
EnrolledCourseIds == {"CourseLocator(edX, A, 2019)", "CourseLocator(edX, B, 2019)"}

\* Sequences over S of at most n elements.
SeqUpTo(S, n) == UNION {[1..k -> S] : k \in 0..n}

\* dict.get(key): a dict is a record, and a key it lacks gives None.
HasKey(dict, key) == key \in DOMAIN dict

\* A course run of the catalog, with a key or without one.
CourseRuns == [key : RunKeys] \union [uuid : {"run"}]

\* A course of a program, with its list of course runs or without one.
Courses == [course_runs : SeqUpTo(CourseRuns, MaxRuns)] \union [uuid : {"course"}]

\* As is_enrolled_in_course_run, without the except clause.
is_enrolled_in_course_run_no_except(course_run, enrollment_course_ids) ==
    LET key == IF HasKey(course_run, "key") THEN course_run.key ELSE None
        course_run_key == from_string(key)
    IN  IF course_run_key.exc # ""
        THEN course_run_key
        ELSE Ok(course_run_key.val \in enrollment_course_ids)

\* lines 192-205
is_enrolled_in_course_run(course_run, enrollment_course_ids) ==
    LET key == IF HasKey(course_run, "key") THEN course_run.key ELSE None
        course_run_key == from_string(key)
    IN  IF course_run_key.exc = "InvalidKeyError"
        THEN Ok(FALSE)
        ELSE Ok(course_run_key.val \in enrollment_course_ids)

\* lines 186-189: the loop over the course runs, and the return after it.
RECURSIVE AnyCourseRun(_, _)
AnyCourseRun(course_runs, enrollment_course_ids) ==
    IF course_runs = <<>> THEN Ok(FALSE)
    ELSE LET r == is_enrolled_in_course_run(Head(course_runs), enrollment_course_ids)
         IN  IF r.exc # "" THEN r
             ELSE IF r.val THEN Ok(TRUE)
             ELSE AnyCourseRun(Tail(course_runs), enrollment_course_ids)

\* lines 180-189
is_enrolled_in_course(course, enrollment_course_ids) ==
    IF HasKey(course, "course_runs") /\ course.course_runs # <<>>
    THEN AnyCourseRun(course.course_runs, enrollment_course_ids)
    ELSE Ok(FALSE)

\* lines 172-177: the loop over the courses, and the return after it.
RECURSIVE AllCourses(_, _)
AllCourses(cs, enrollment_course_ids) ==
    IF cs = <<>> THEN Ok(TRUE)
    ELSE LET r == is_enrolled_in_course(Head(cs), enrollment_course_ids)
         IN  IF r.exc # "" THEN r
             ELSE IF ~r.val THEN Ok(FALSE)
             ELSE AllCourses(Tail(cs), enrollment_course_ids)

\* lines 165-177
is_enrolled_in_all_courses(cs, enrollments) ==
    LET enrollment_course_ids == {enrollment.course_id : enrollment \in enrollments}
    IN  AllCourses(cs, enrollment_course_ids)

\* lines 159-162: the loop over the courses, and the return after it.
RECURSIVE Unenrolled(_, _, _)
Unenrolled(cs, enrollment_course_ids, unenrolled_courses) ==
    IF cs = <<>> THEN Ok(unenrolled_courses)
    ELSE LET r == is_enrolled_in_course(Head(cs), enrollment_course_ids)
         IN  IF r.exc # "" THEN r
             ELSE Unenrolled(Tail(cs), enrollment_course_ids,
                             IF ~r.val THEN Append(unenrolled_courses, Head(cs))
                             ELSE unenrolled_courses)

\* lines 148-162
get_unenrolled_courses(cs, enrollments) ==
    LET enrollment_course_ids == {enrollment.course_id : enrollment \in enrollments}
    IN  Unenrolled(cs, enrollment_course_ids, <<>>)

CallIsEnrolledInAllCourses ==
    /\ enroll_fn = None
    /\ enroll_fn' = "is_enrolled_in_all_courses"
    /\ enroll_ret' = is_enrolled_in_all_courses(courses, user_enrollments)
    /\ UNCHANGED <<courses, user_enrollments>>
    /\ UNCHANGED <<bucket_vars, upgrade_vars, price_vars>>

CallGetUnenrolledCourses ==
    /\ enroll_fn = None
    /\ enroll_fn' = "get_unenrolled_courses"
    /\ enroll_ret' = get_unenrolled_courses(courses, user_enrollments)
    /\ UNCHANGED <<courses, user_enrollments>>
    /\ UNCHANGED <<bucket_vars, upgrade_vars, price_vars>>

(***************************************************************************)
(* check_and_get_upgrade_link_and_date.  The outcome of a call also has    *)
(* its trace: the calls it made to its collaborators, in order.            *)
(***************************************************************************)
UserIds == {"u1", "u2"}

CourseIds == {"CourseLocator(edX, A, 2019)", "CourseLocator(edX, B, 2019)"}

Users == [id : UserIds, is_authenticated : BOOLEAN]

CourseObjects == [id : CourseIds]

UpgradeDeadlines == {None, "2019-06-01"}

Enrollments ==
    [user_id : UserIds, course_id : CourseIds, upgrade_deadline : UpgradeDeadlines]

\* enrollment.course
EnrollmentCourse(e) == [id |-> e.course_id]

\* The enrollment tables: a user has at most one enrollment in a course.
EnrollmentTables ==
    {table \in [UserIds \X CourseIds -> {NoObject} \union Enrollments] :
        \A k \in UserIds \X CourseIds :
            table[k] # NoObject =>
                table[k].user_id = k[1] /\ table[k].course_id = k[2]}

\* CourseEnrollment.get_enrollment(user, course_id)
get_enrollment(u, course_id) == db[<<u.id, course_id>>]

\* verified_upgrade_link_is_valid(enrollment)
verified_upgrade_link_is_valid(e) == link_is_valid

\* verified_upgrade_deadline_link(user, course): the link for this user to
\* upgrade in this course, or None.
verified_upgrade_deadline_link(u, c) ==
    IF ~upgrade_link_available THEN None
    ELSE CASE u.id = "u1" /\ c.id = "CourseLocator(edX, A, 2019)" -> "/basket?user=u1&sku=A"
           [] u.id = "u1" /\ c.id = "CourseLocator(edX, B, 2019)" -> "/basket?user=u1&sku=B"
           [] u.id = "u2" /\ c.id = "CourseLocator(edX, A, 2019)" -> "/basket?user=u2&sku=A"
           [] u.id = "u2" /\ c.id = "CourseLocator(edX, B, 2019)" -> "/basket?user=u2&sku=B"

Traced(fn, user_id, course_id) ==
    [fn |-> fn, user_id |-> user_id, course_id |-> course_id]

Outcome(exc, val, trace) == [exc |-> exc, val |-> val, trace |-> trace]

\* As validation_error, without the check of the user of the enrollment.
validation_error_no_user_check(u, e, c) ==
    IF e = NoObject /\ c = NoObject THEN "ValueError"
    ELSE IF e # NoObject /\ c # NoObject /\ e.course_id # c.id THEN "ValueError"
    ELSE ""

\* lines 73-87: the exception the checks of the arguments raise, "" for none.
validation_error(u, e, c) ==
    IF e = NoObject /\ c = NoObject THEN "ValueError"
    ELSE IF e # NoObject /\ c # NoObject /\ e.course_id # c.id THEN "ValueError"
    ELSE IF e # NoObject /\ e.user_id # u.id THEN "ValueError"
    ELSE ""

\* As upgrade_condition, for any user.
upgrade_condition_any_user(u, e) ==
    [holds |-> verified_upgrade_link_is_valid(e),
     trace |-> <<Traced("verified_upgrade_link_is_valid",
                        IF e = NoObject THEN None ELSE e.user_id,
                        IF e = NoObject THEN None ELSE e.course_id)>>]

\* line 92: user.is_authenticated and verified_upgrade_link_is_valid(enrollment)
upgrade_condition(u, e) ==
    IF ~u.is_authenticated THEN [holds |-> FALSE, trace |-> <<>>]
    ELSE [holds |-> verified_upgrade_link_is_valid(e),
          trace |-> <<Traced("verified_upgrade_link_is_valid",
                             IF e = NoObject THEN None ELSE e.user_id,
                             IF e = NoObject THEN None ELSE e.course_id)>>]

\* lines 89-98, with the course of lines 77-78
upgrade_link_and_date(u, e, c) ==
    LET lookup == IF e = NoObject
                  THEN <<Traced("get_enrollment", u.id, c.id)>> ELSE <<>>
        e1     == IF e = NoObject THEN get_enrollment(u, c.id) ELSE e
        cond   == upgrade_condition(u, e1)
        link   == <<Traced("verified_upgrade_deadline_link", u.id, c.id)>>
    IN  IF cond.holds
        THEN IF e1 = NoObject
             THEN Outcome("AttributeError", None, lookup \o cond.trace \o link)
             ELSE Outcome("", <<verified_upgrade_deadline_link(u, c), e1.upgrade_deadline>>,
                          lookup \o cond.trace \o link)
        ELSE Outcome("", <<None, None>>, lookup \o cond.trace)

\* lines 64-98
check_and_get_upgrade_link_and_date(u, e, c) ==
    LET exc == validation_error(u, e, c)
    IN  IF exc # "" THEN Outcome(exc, None, <<>>)
        ELSE upgrade_link_and_date(
                 u, e, IF c = NoObject THEN EnrollmentCourse(e) ELSE c)

CallCheckAndGetUpgradeLinkAndDate ==
    /\ upgrade_pc = "ready"
    /\ upgrade_pc' = "done"
    /\ upgrade_ret' = check_and_get_upgrade_link_and_date(arg_user, arg_enrollment, arg_course)
    /\ UNCHANGED <<arg_user, arg_enrollment, arg_course, db, link_is_valid,
                   upgrade_link_available>>
    /\ UNCHANGED <<bucket_vars, enroll_vars, price_vars>>

UpgradeIdle ==
    /\ arg_user = NoObject
    /\ arg_enrollment = NoObject
    /\ arg_course = NoObject
    /\ db = <<>>
    /\ link_is_valid = FALSE
    /\ upgrade_link_available = FALSE
    /\ upgrade_pc = "idle"
    /\ upgrade_ret = None

(***************************************************************************)
(* get_course_entitlement_price_and_sku.  A time is an integer.            *)
(***************************************************************************)
\* bool(x) of a string or None.
Truthy(x) == x # "" /\ x # None

\* Decimal(string)
Decimal(string) ==
    CASE string = "49.00" -> "Decimal('49.00')"
      [] string = "99.00" -> "Decimal('99.00')"
      [] OTHER -> "InvalidOperation"

\* The entitlements of the catalog: with or without an expiry time.
EntitlementFields ==
    [mode : {"verified", "professional"}, price : {"", "100.00"},
     sku : {None, "E1", "E2"}]

Entitlements ==
    EntitlementFields
    \union [mode : {"verified", "professional"}, price : {"", "100.00"},
            sku : {None, "E1", "E2"}, expires : {2}]

NowTimes == {1, 2, 3}

\* The seats of the catalog.
Seats ==
    [type : {"verified", "audit"}, price : {"", "49.00"}, sku : {None, "S1", "S2"}]

\* Two seats that are verified with a price and a sku.
SomeSeats ==
    {[type |-> "verified", price |-> "49.00", sku |-> "S1"],
     [type |-> "verified", price |-> "99.00", sku |-> "S2"]}

RunStatuses == {"published", "unpublished"}

\* As not_expired, counting an entitlement that expires now as not expired.
not_expired_inclusive(entitlement, t) ==
    LET has_expires == HasKey(entitlement, "expires")
    IN  ~has_expires \/ entitlement.expires >= t

\* lines 133-134: not expires or expires > now()
not_expired(entitlement, t) ==
    LET has_expires == HasKey(entitlement, "expires")
    IN  ~has_expires \/ entitlement.expires > t

\* lines 131-135: the loop over the entitlements; NoObject when it ends
\* without returning.
RECURSIVE FirstEntitlement(_, _)
FirstEntitlement(entitlements, t) ==
    IF entitlements = <<>> THEN NoObject
    ELSE LET entitlement == Head(entitlements)
         IN  IF /\ entitlement.mode = "verified"
                /\ Truthy(entitlement.price)
                /\ Truthy(entitlement.sku)
                /\ not_expired(entitlement, t)
             THEN Ok(<<entitlement.price, entitlement.sku>>)
             ELSE FirstEntitlement(Tail(entitlements), t)

\* lines 140-143: the loop over the seats of a course run.
RECURSIVE FirstSeat(_)
FirstSeat(seats) ==
    IF seats = <<>> THEN NoObject
    ELSE LET seat == Head(seats)
         IN  IF seat.type = "verified" /\ Truthy(seat.price) /\ Truthy(seat.sku)
             THEN Ok(<<Decimal(seat.price), seat.sku>>)
             ELSE FirstSeat(Tail(seats))

\* lines 139-143: the loop over the published course runs.
RECURSIVE FirstSeatOfRuns(_)
FirstSeatOfRuns(published_course_runs) ==
    IF published_course_runs = <<>> THEN NoObject
    ELSE LET found == FirstSeat(Head(published_course_runs).seats)
         IN  IF found # NoObject THEN found
             ELSE FirstSeatOfRuns(Tail(published_course_runs))

\* lines 125-145
get_course_entitlement_price_and_sku(c, t) ==
    LET entitlements == IF HasKey(c, "entitlements") THEN c.entitlements ELSE <<>>
        course_runs  == IF HasKey(c, "course_runs") THEN c.course_runs ELSE <<>>
        published_course_runs ==
            SelectSeq(course_runs, LAMBDA run : run.status = "published")
        entitled == FirstEntitlement(entitlements, t)
        seated   == FirstSeatOfRuns(published_course_runs)
    IN  IF entitled # NoObject THEN entitled
        ELSE IF seated # NoObject THEN seated
        ELSE Ok(<<None, None>>)

CallGetCourseEntitlementPriceAndSku ==
    /\ price_pc = "ready"
    /\ price_pc' = "done"
    /\ price_ret' = get_course_entitlement_price_and_sku(catalog_course, now)
    /\ UNCHANGED <<catalog_course, now>>
    /\ UNCHANGED <<bucket_vars, enroll_vars, upgrade_vars>>

\* The courses of the catalog a call is made with: any entitlements with no
\* course run or one published course run with a seat; no entitlements with
\* any course runs of the seats of SomeSeats; and no entitlements with one
\* course run of any seats.
CatalogCourses ==
    [entitlements : SeqUpTo(Entitlements, MaxEntitlements)]
    \union [entitlements : SeqUpTo(Entitlements, MaxEntitlements),
            course_runs : {<<[status |-> "published",
                               seats |-> <<[type |-> "verified", price |-> "49.00",
                                            sku |-> "S1"]>>]>>}]
    \union [course_runs :
               SeqUpTo([status : RunStatuses, seats : SeqUpTo(SomeSeats, MaxSeats)],
                       MaxRuns)]
    \union [course_runs :
               {<<run>> : run \in [status : RunStatuses, seats : SeqUpTo(Seats, MaxSeats)]}]

PriceIdle ==
    /\ catalog_course = NoObject
    /\ now = 0
    /\ price_pc = "idle"
    /\ price_ret = None

BucketIdle ==
    /\ pc = [t \in Threads |-> "idle"]
    /\ args = [t \in Threads |-> None]
    /\ hasher = [t \in Threads |-> None]
    /\ hash_str = [t \in Threads |-> None]
    /\ result = [t \in Threads |-> None]

EnrollIdle ==
    /\ courses = <<>>
    /\ user_enrollments = {}
    /\ enroll_fn = None
    /\ enroll_ret = None

\* Any list of courses and any enrollments of the user, before the call.
InitEnroll ==
    /\ md5 = <<>>
    /\ BucketIdle
    /\ UpgradeIdle
    /\ PriceIdle
    /\ courses \in SeqUpTo(Courses, MaxCourses)
    /\ user_enrollments \in SUBSET [course_id : EnrolledCourseIds]
    /\ enroll_fn = None
    /\ enroll_ret = None

\* Any user, enrollment or None, course or None, and any answers of the
\* collaborators, before the call.
InitUpgrade ==
    /\ md5 = <<>>
    /\ BucketIdle
    /\ EnrollIdle
    /\ PriceIdle
    /\ arg_user \in Users
    /\ arg_enrollment \in {NoObject} \union Enrollments
    /\ arg_course \in {NoObject} \union CourseObjects
    /\ db \in EnrollmentTables
    /\ link_is_valid \in BOOLEAN
    /\ upgrade_link_available \in BOOLEAN
    /\ upgrade_pc = "ready"
    /\ upgrade_ret = None

\* Any course of the catalog and any time, before the call.
InitPrice ==
    /\ md5 = <<>>
    /\ BucketIdle
    /\ EnrollIdle
    /\ UpgradeIdle
    /\ catalog_course \in CatalogCourses
    /\ now \in NowTimes
    /\ price_pc = "ready"
    /\ price_ret = None

NextPrice == CallGetCourseEntitlementPriceAndSku

NextUpgrade == CallCheckAndGetUpgradeLinkAndDate

NextEnroll == CallIsEnrolledInAllCourses \/ CallGetUnenrolledCourses

\* One call, of thread t1, with any arguments, md5 giving any digest for the
\* bytes it hashes.
InitDigest ==
    /\ EnrollIdle
    /\ UpgradeIdle
    /\ PriceIdle
    /\ \E a \in Arguments :
          /\ args = [t \in Threads |-> IF t = "t1" THEN a ELSE None]
          /\ md5 \in [{Buffer(a)} -> Digests]
    /\ pc = [t \in Threads |-> IF t = "t1" THEN "called" ELSE "idle"]
    /\ hasher = [t \in Threads |-> None]
    /\ hash_str = [t \in Threads |-> None]
    /\ result = [t \in Threads |-> None]

\* Any number of calls of two threads, interleaved, md5 being any function
\* from the byte strings they hash to SampleDigests.
InitCalls ==
    /\ EnrollIdle
    /\ UpgradeIdle
    /\ PriceIdle
    /\ md5 \in [Buffers -> SampleDigests]
    /\ BucketIdle

NextDigest ==
    \E t \in Threads :
        NewHasher(t) \/ UpdateGroupName(t) \/ UpdateUsername(t) \/ Return(t)

NextCalls ==
    \E t \in Threads :
        \/ Call(t)
        \/ NewHasher(t)
        \/ UpdateGroupName(t)
        \/ UpdateUsername(t)
        \/ Return(t)

SpecDigest == InitDigest /\ [][NextDigest]_vars

SpecCalls == InitCalls /\ [][NextCalls]_vars

SpecEnroll == InitEnroll /\ [][NextEnroll]_vars

SpecUpgrade == InitUpgrade /\ [][NextUpgrade]_vars

SpecPrice == InitPrice /\ [][NextPrice]_vars

(***************************************************************************)
(* The claims about stable_bucketing_hash_group.                           *)
(***************************************************************************)
Returned(t) == pc[t] = "done" /\ result[t].exc = ""

\* C1: for every experiment name, username and bucket count >= 1 the call
\* returns an integer b with 0 <= b < bucket count, and 0 when the bucket
\* count is 1.
C1_BucketInRange ==
    \A t \in Threads :
        (pc[t] = "done" /\ args[t].group_count >= 1) =>
            /\ result[t].exc = ""
            /\ 0 <= result[t].val
            /\ result[t].val < args[t].group_count
            /\ (args[t].group_count = 1 => result[t].val = 0)

\* A call with more than one bucket returned the last bucket.
C1_Witness ==
    \E t \in Threads :
        /\ Returned(t)
        /\ args[t].group_count > 1
        /\ result[t].val = args[t].group_count - 1

\* C2: a call with a bucket count <= 0 fails with an error and returns no
\* bucket.
C2_NonPositiveCountFails ==
    \A t \in Threads :
        (pc[t] = "done" /\ args[t].group_count <= 0) => result[t].exc # ""

\* The top bit of the nibble a hex character stands for.
TopBit(c) == DigitValue(c) \div 8

\* The integer whose bits are the top bits of the nibbles of a digest, the
\* first nibble the most significant.
RECURSIVE TopBitsValue(_)
TopBitsValue(hash) ==
    IF hash = <<>> THEN 0
    ELSE TopBit(hash[Len(hash)]) + 2 * TopBitsValue(SubSeq(hash, 1, Len(hash) - 1))

\* C3: the two substitutions followed by the base-2 parse give the integer
\* whose i-th bit, the first nibble the most significant, is the top bit of
\* the i-th nibble of the digest of the bytes of the experiment name followed
\* by those of the username; the call returns that integer modulo the bucket
\* count; and the second substitution leaves every character the first one
\* produced as it was.
C3_TopBitsOfNibbles ==
    \A t \in Threads :
        pc[t] = "done" =>
            LET first  == re_sub(Class07, "0", hash_str[t])
                second == re_sub(Class89af, "1", first)
            IN  /\ hash_str[t] = md5[Buffer(args[t])]
                /\ Len(hash_str[t]) = DigestLen
                /\ \A i \in 1..DigestLen :
                      /\ second[i] = (IF TopBit(hash_str[t][i]) = 1 THEN "1" ELSE "0")
                      /\ (first[i] # hash_str[t][i] => second[i] = first[i])
                /\ int_parse(second, 2) = Ok(TopBitsValue(hash_str[t]))
                /\ (args[t].group_count >= 1 =>
                      /\ result[t].exc = ""
                      /\ result[t].val = TopBitsValue(hash_str[t]) % args[t].group_count)

\* A call returned a bucket other than 0 for a digest whose first nibble is
\* above 7 and whose last nibble is below 8.
C3_Witness ==
    \E t \in Threads :
        /\ Returned(t)
        /\ args[t].group_count >= 1
        /\ TopBit(hash_str[t][1]) = 1
        /\ TopBit(hash_str[t][DigestLen]) = 0
        /\ hash_str[t][DigestLen] # "0"
        /\ result[t].val # 0

SameOutcome(r1, r2) == r1.exc = r2.exc /\ (r1.exc = "" => r1.val = r2.val)

\* The locals of the call of a thread.
Locals(t) == <<pc[t], args[t], hasher[t], hash_str[t], result[t]>>

\* C4, determinism: two finished calls with the same experiment name, bucket
\* count and username have the same outcome, whatever calls each thread made
\* before and however their steps were interleaved.
Deterministic ==
    \A t1, t2 \in Threads :
        (pc[t1] = "done" /\ pc[t2] = "done" /\ args[t1] = args[t2]) =>
            SameOutcome(result[t1], result[t2])

\* C4, statelessness: a step of a call changes the locals of that call only.
Isolated ==
    /\ md5' = md5
    /\ \E t \in Threads : \A s \in Threads \ {t} : Locals(s)' = Locals(s)

\* C4: stable_bucketing_hash_group is deterministic and stateless.
C4_DeterministicStateless == []Deterministic /\ [][Isolated]_vars

\* Two calls with the same arguments, one of each thread, have both returned
\* the same bucket, which is not 0.
C4_Witness ==
    /\ \A t \in Threads : Returned(t)
    /\ args["t1"] = args["t2"]
    /\ args["t1"].group_count > 1
    /\ result["t1"].val # 0

(***************************************************************************)
(* The claim about the enrollment checks.                                  *)
(***************************************************************************)
\* A course run has a key that parses.
HasValidKey(course_run) ==
    HasKey(course_run, "key") /\ from_string(course_run.key).exc = ""

\* At least one course run of the course has a valid key that is in the set
\* of enrollment course ids.
EnrolledIn(c, enrollment_course_ids) ==
    /\ HasKey(c, "course_runs")
    /\ \E j \in 1..Len(c.course_runs) :
          /\ HasValidKey(c.course_runs[j])
          /\ from_string(c.course_runs[j].key).val \in enrollment_course_ids

\* C5: is_enrolled_in_course_run returns False for a course run whose key
\* cannot be parsed; is_enrolled_in_course, is_enrolled_in_all_courses and
\* get_unenrolled_courses raise nothing, and count a course as enrolled
\* exactly when at least one of its course runs has a valid key that is in
\* the set of enrollment course ids.
C5_InvalidKeyNotEnrolled ==
    LET ids == {e.course_id : e \in user_enrollments}
    IN  /\ \A i \in 1..Len(courses) :
              /\ HasKey(courses[i], "course_runs") =>
                    \A j \in 1..Len(courses[i].course_runs) :
                        LET run == courses[i].course_runs[j]
                            r   == is_enrolled_in_course_run(run, ids)
                        IN  ~HasValidKey(run) => (r.exc = "" /\ r.val = FALSE)
              /\ LET r == is_enrolled_in_course(courses[i], ids)
                 IN  r.exc = "" /\ r.val = EnrolledIn(courses[i], ids)
        /\ enroll_fn = "is_enrolled_in_all_courses" =>
              /\ enroll_ret.exc = ""
              /\ enroll_ret.val = (\A i \in 1..Len(courses) : EnrolledIn(courses[i], ids))
        /\ enroll_fn = "get_unenrolled_courses" =>
              /\ enroll_ret.exc = ""
              /\ enroll_ret.val = SelectSeq(courses, LAMBDA c : ~EnrolledIn(c, ids))

\* get_unenrolled_courses returned the second of two courses only: the first
\* has a course run with an invalid key before the one the user is enrolled
\* in, the second has no course run with a valid key.
C5_Witness ==
    /\ enroll_fn = "get_unenrolled_courses"
    /\ Len(courses) = 2
    /\ HasKey(courses[1], "course_runs")
    /\ Len(courses[1].course_runs) = 2
    /\ ~HasValidKey(courses[1].course_runs[1])
    /\ HasKey(courses[2], "course_runs")
    /\ Len(courses[2].course_runs) > 0
    /\ \A j \in 1..Len(courses[2].course_runs) : ~HasValidKey(courses[2].course_runs[j])
    /\ enroll_ret.exc = ""
    /\ enroll_ret.val = <<courses[2]>>

(***************************************************************************)
(* The claims about check_and_get_upgrade_link_and_date.                   *)
(***************************************************************************)
\* The course the call is about: the one given, or that of the enrollment.
TheCourse ==
    IF arg_course = NoObject THEN EnrollmentCourse(arg_enrollment) ELSE arg_course

\* The enrollment the call is about: the one given, or the one of the table.
TheEnrollment ==
    IF arg_enrollment = NoObject THEN db[<<arg_user.id, TheCourse.id>>]
    ELSE arg_enrollment

\* C6: the call returns the upgrade link and the upgrade deadline of the
\* enrollment only when the user is authenticated and the verified upgrade
\* link of the enrollment is valid; in every other case in which it raises
\* nothing it returns None for both.
C6_LinkAndDateOrNeither ==
    (upgrade_pc = "done" /\ upgrade_ret.exc = "") =>
        IF arg_user.is_authenticated /\ link_is_valid
        THEN upgrade_ret.val =
                 <<verified_upgrade_deadline_link(arg_user, TheCourse),
                   TheEnrollment.upgrade_deadline>>
        ELSE upgrade_ret.val = <<None, None>>

\* The call returned a link and a deadline.
C6_Witness ==
    /\ upgrade_pc = "done"
    /\ upgrade_ret.exc = ""
    /\ upgrade_ret.val[1] # None
    /\ upgrade_ret.val[2] # None

NeitherGiven == arg_enrollment = NoObject /\ arg_course = NoObject

OtherCourse ==
    /\ arg_enrollment # NoObject
    /\ arg_course # NoObject
    /\ arg_enrollment.course_id # arg_course.id

OtherUser == arg_enrollment # NoObject /\ arg_enrollment.user_id # arg_user.id

Lookups ==
    SelectSeq(upgrade_ret.trace, LAMBDA call : call.fn = "get_enrollment")

\* C7: the call raises ValueError, before any call of a collaborator, when
\* neither an enrollment nor a course is given, when the course id of the
\* enrollment is not the id of the course, or when the user id of the
\* enrollment is not the id of the user.  Otherwise, given an enrollment and
\* no course it uses the course of the enrollment and looks nothing up, and
\* given no enrollment it looks the enrollment up once, first, for the user
\* and the id of the course.
C7_ValueErrorBeforeLookup ==
    upgrade_pc = "done" =>
        IF NeitherGiven \/ OtherCourse \/ OtherUser
        THEN upgrade_ret.exc = "ValueError" /\ upgrade_ret.trace = <<>>
        ELSE /\ upgrade_ret.exc # "ValueError"
             /\ \A i \in 1..Len(upgrade_ret.trace) :
                   upgrade_ret.trace[i].fn # "verified_upgrade_link_is_valid" =>
                       /\ upgrade_ret.trace[i].user_id = arg_user.id
                       /\ upgrade_ret.trace[i].course_id = TheCourse.id
             /\ (arg_enrollment # NoObject => Lookups = <<>>)
             /\ (arg_enrollment = NoObject =>
                   /\ Lookups = <<Traced("get_enrollment", arg_user.id, arg_course.id)>>
                   /\ upgrade_ret.trace[1].fn = "get_enrollment")

\* The call raised ValueError for an enrollment of the course given and of
\* another user.
C7_Witness ==
    /\ upgrade_pc = "done"
    /\ ~NeitherGiven
    /\ ~OtherCourse
    /\ arg_course # NoObject
    /\ OtherUser
    /\ upgrade_ret.exc = "ValueError"

(***************************************************************************)
(* The claim about get_course_entitlement_price_and_sku.                   *)
(***************************************************************************)
TheEntitlements ==
    IF HasKey(catalog_course, "entitlements") THEN catalog_course.entitlements ELSE <<>>

TheCourseRuns ==
    IF HasKey(catalog_course, "course_runs") THEN catalog_course.course_runs ELSE <<>>

\* The i-th entitlement is verified, has a price and a sku and is not
\* expired: it has no expiry, or one later than now.
Entitles(i) ==
    LET entitlement == TheEntitlements[i]
    IN  /\ entitlement.mode = "verified"
        /\ entitlement.price \notin {"", None}
        /\ entitlement.sku \notin {"", None}
        /\ (HasKey(entitlement, "expires") => entitlement.expires > now)

\* The k-th seat of the j-th course run is a verified seat with a price and
\* a sku, of a published course run.
Sells(j, k) ==
    LET seat == TheCourseRuns[j].seats[k]
    IN  /\ TheCourseRuns[j].status = "published"
        /\ seat.type = "verified"
        /\ seat.price \notin {"", None}
        /\ seat.sku \notin {"", None}

SeatPlaces ==
    {<<j, k>> \in (1..Len(TheCourseRuns)) \X (1..MaxSeats + 1) :
        k <= Len(TheCourseRuns[j].seats)}

Before(p, q) == p[1] < q[1] \/ (p[1] = q[1] /\ p[2] < q[2])

====
